---- MODULE Spec2Model ----
(***************************************************************************)
(* Model of DmfDeviceUiPlugin (src/__init__.py): the supervisor of the     *)
(* out-of-process device UI (reset_gui / keep_alive / cleanup), the        *)
(* settings flow of the MQTT bridge (on_message / save_ui_settings /       *)
(* set_ui_settings) and the step-options synchronizer (update_steps /      *)
(* update_protocol).                                                       *)
(*                                                                         *)
(* Every handler is one atomic action: the plugin runs on a single         *)
(* cooperative event loop.  `trace` holds the calls the last handler made  *)
(* on its collaborators (subprocess, gobject, the MQTT client, the         *)
(* configuration store, the protocol store), in program order; `lastOp`    *)
(* names that handler and `error` the exception that left it, if any.      *)
(*                                                                         *)
(* The supervisor and the synchronizer share no field, so each is explored *)
(* under its own specification: Spec (supervisor and settings) and         *)
(* SpecProtocol (step options).  SpecCodec starts the plugin from every    *)
(* persisted settings document built from the codec's sample wire values   *)
(* and applies json_settings_as_python and a worker start to it.           *)
(***************************************************************************)
EXTENDS Integers, Sequences, FiniteSets, TLC

VARIABLES
    gui_process,        \* self.gui_process: handle of the last spawned worker
    gui_heartbeat_id,   \* self.gui_heartbeat_id: id returned by timeout_add
    gui_enabled,        \* self._gui_enabled
    alive_timestamp,    \* self.alive_timestamp
    should_terminate,   \* self.should_terminate
    video_settings,     \* self.video_settings (last settings message)
    procs,              \* OS processes spawned so far: handle -> poll() outcome
    sources,            \* live gobject timer sources running keep_alive
    next_source_id,     \* next id gobject.timeout_add hands out
    notified,           \* workers that were alive when the terminate notice was sent
    app_values,         \* configuration store: get_app_values()/set_app_values()
    steps,              \* app.protocol.steps: per step, plugin name -> options
    trace,              \* collaborator calls of the last handler, in order
    lastOp,             \* the last handler and its argument
    error               \* exception that left the last handler, or "none"

vars == <<gui_process, gui_heartbeat_id, gui_enabled, alive_timestamp,
          should_terminate, video_settings, procs, sources, next_source_id,
          notified, app_values, steps, trace, lastOp, error>>

supervisorVars == <<gui_process, gui_heartbeat_id, gui_enabled, alive_timestamp,
                    should_terminate, video_settings, procs, sources,
                    next_source_id, notified, app_values>>

----------------------------------------------------------------------------
(* Bounds *)

MaxProcs == 2       \* worker processes spawned in one run
MaxTime == 1        \* distinct values datetime.now() is drawn from
MaxSteps == 2       \* steps of the external protocol
MaxEdit == 2        \* length of an edited snapshot

----------------------------------------------------------------------------
(* Python values *)

\* None.  Process handles, source ids and timestamps start at 1.
None == 0

Times == 1..MaxTime

EmptyDict == [k \in {} |-> None]

\* dict.update
DictUpdate(d, e) ==
    [k \in DOMAIN d \cup DOMAIN e |-> IF k \in DOMAIN e THEN e[k] ELSE d[k]]

\* {k: d[k] for k in d if k in keys}
DictRestrict(d, keys) == [k \in DOMAIN d \cap keys |-> d[k]]

\* name of this plugin (self.name = self.plugin_name) and of another plugin
PluginName == "dmf_device_ui_plugin"
OtherPlugin == "other_plugin"

----------------------------------------------------------------------------
(* MQTT topics *)

TopicGetVideoSettingsOut == "microdrop/dmf-device-ui-plugin/get-video-settings"
TopicSetVideoConfig == "microdrop/dmf-device-ui-plugin/set-video-config"
TopicSetSurfaceAlphas == "microdrop/dmf-device-ui-plugin/set-surface-alphas"
TopicSetDefaultCorners == "microdrop/dmf-device-ui-plugin/set-default-corners"
TopicSetCorners == "microdrop/dmf-device-ui-plugin/set-corners"
TopicTerminate == "microdrop/dmf-device-ui-plugin/terminate"
TopicSchema == "microdrop/dmf-device-ui-plugin/schema"
TopicStepOptions == "microdrop/dmf-device-ui-plugin/step-options"
TopicGetVideoSettingsIn == "microdrop/dmf-device-ui/get-video-settings"
TopicUpdateProtocol == "microdrop/dmf-device-ui/update-protocol"

Publish(topic, payload, retain) ==
    [op |-> "publish", topic |-> topic, payload |-> payload, retain |-> retain]

----------------------------------------------------------------------------
(* AppFields and StepFields *)

AppFieldNames == {"video_config", "surface_alphas", "canvas_corners",
                  "frame_corners", "x", "y", "width", "height"}

DefaultWidth == 400
DefaultHeight == 500

AppDefaults ==
    [video_config |-> "", surface_alphas |-> "", canvas_corners |-> "",
     frame_corners |-> "", x |-> None, y |-> None,
     width |-> DefaultWidth, height |-> DefaultHeight]

StepDefaults == [video_enabled |-> TRUE]

----------------------------------------------------------------------------
(* Settings codec: json_settings_as_python and the to_json of its results *)

\* Wire strings the model draws settings from.  json.loads and pd.read_csv
\* are given by their value on each of them.
JsonEmpty == ""
JsonA == "{\"a\":1}"
JsonSpaced == "{\"a\": 1}"
JsonBad == "{bad"
CsvCorners == ",x,y\n0,0,0\n1,1,0"
CsvFrame == ",x,y\n0,0,0\n1,2,0"
CsvBad == ",x,y\n0,0,0\n1,1,0,5,5"

\* json.loads(s) succeeds
JsonValid(s) == s \in {JsonA, JsonSpaced}

\* pd.Series(json.loads(s)): an ordered key -> value mapping, as a sequence of pairs
SeriesOfJson(s) ==
    CASE s = JsonA -> << <<"a", 1>> >>
      [] s = JsonSpaced -> << <<"a", 1>> >>

\* pd.Series(None)
EmptySeries == << >>

\* pd.read_csv(io.BytesIO(bytes(s)), index_col=0) succeeds
CsvValid(s) == s \in {CsvCorners, CsvFrame}

\* pd.read_csv(..., index_col=0): columns in order, each a series over the row index
ReadCsv(s) ==
    CASE s = CsvCorners -> << <<"x", << <<"0", 0>>, <<"1", 1>> >> >>,
                              <<"y", << <<"0", 0>>, <<"1", 0>> >> >> >>
      [] s = CsvFrame -> << <<"x", << <<"0", 0>>, <<"1", 2>> >> >>,
                            <<"y", << <<"0", 0>>, <<"1", 0>> >> >> >>

RECURSIVE Join(_)
\* ",".join(strs)
Join(strs) ==
    IF strs = << >> THEN ""
    ELSE IF Len(strs) = 1 THEN strs[1]
    ELSE strs[1] \o "," \o Join(Tail(strs))

\* json.dumps(dict(ser)): the separators of json.dumps, not those of to_json
SeriesToJsonSpaced(ser) ==
    "{" \o Join([i \in 1..Len(ser) |->
                    "\"" \o ser[i][1] \o "\": " \o ToString(ser[i][2])]) \o "}"

\* pd.Series.to_json(): {key: value}
SeriesToJson(ser) ==
    "{" \o Join([i \in 1..Len(ser) |->
                    "\"" \o ser[i][1] \o "\":" \o ToString(ser[i][2])]) \o "}"

\* pd.DataFrame.to_json(): {column: {row: value}}
DataFrameToJson(df) ==
    "{" \o Join([i \in 1..Len(df) |->
                    "\"" \o df[i][1] \o "\":" \o SeriesToJson(df[i][2])]) \o "}"

\* truth value of json_settings.get(k): None (absent) and '' are false
Truthy(js, k) == k \in DOMAIN js /\ js[k] # ""

CornerKeys == {"canvas_corners", "frame_corners"}
SeriesKeys == {"video_config", "surface_alphas"}

\* all(corners.values())
AllCorners(js) == \A k \in CornerKeys : Truthy(js, k)

\* json_settings_as_python(js) returns (no pd.read_csv or json.loads raises)
CanDecode(js) ==
    /\ AllCorners(js) => \A k \in CornerKeys : CsvValid(js[k])
    /\ \A k \in SeriesKeys \cap DOMAIN js : js[k] # "" => JsonValid(js[k])

\* the corners converted one by one, each when it is non-empty and parses
json_settings_as_python_each_corner(js) ==
    LET corners == [k \in {"df_" \o c : c \in {c \in CornerKeys :
                                  Truthy(js, c) /\ CsvValid(js[c])}} |->
                      IF k = "df_canvas_corners"
                      THEN ReadCsv(js["canvas_corners"])
                      ELSE ReadCsv(js["frame_corners"])]
        series == [k \in SeriesKeys \cap DOMAIN js |->
                      IF js[k] = "" THEN EmptySeries ELSE SeriesOfJson(js[k])]
    IN DictUpdate(corners, series)

\* json_settings.get(k) in place of `k in json_settings`: an absent series
\* field decoded as an empty one
json_settings_as_python_get(js) ==
    LET corners == IF AllCorners(js)
                   THEN [k \in {"df_canvas_corners", "df_frame_corners"} |->
                            IF k = "df_canvas_corners"
                            THEN ReadCsv(js["canvas_corners"])
                            ELSE ReadCsv(js["frame_corners"])]
                   ELSE EmptyDict
        series == [k \in SeriesKeys |->
                      IF ~Truthy(js, k) THEN EmptySeries ELSE SeriesOfJson(js[k])]
    IN DictUpdate(corners, series)

json_settings_as_python(js) ==
    LET corners == IF AllCorners(js)
                   THEN [k \in {"df_canvas_corners", "df_frame_corners"} |->
                            IF k = "df_canvas_corners"
                            THEN ReadCsv(js["canvas_corners"])
                            ELSE ReadCsv(js["frame_corners"])]
                   ELSE EmptyDict
        series == [k \in SeriesKeys \cap DOMAIN js |->
                      IF js[k] = "" THEN EmptySeries ELSE SeriesOfJson(js[k])]
    IN DictUpdate(corners, series)

\* set_ui_settings(ui_settings, default_corners): the messages it publishes
set_ui_settings(ui, default_corners) ==
    (IF "video_config" \in DOMAIN ui
     THEN << Publish(TopicSetVideoConfig,
                     [video_config |-> SeriesToJson(ui["video_config"])], TRUE) >>
     ELSE << >>)
    \o
    (IF "surface_alphas" \in DOMAIN ui
     THEN << Publish(TopicSetSurfaceAlphas,
                     [surface_alphas |-> SeriesToJson(ui["surface_alphas"])], TRUE) >>
     ELSE << >>)
    \o
    (IF {"df_canvas_corners", "df_frame_corners"} \subseteq DOMAIN ui
     THEN << Publish(IF default_corners THEN TopicSetDefaultCorners
                                        ELSE TopicSetCorners,
                     [df_canvas_corners |-> DataFrameToJson(ui["df_canvas_corners"]),
                      df_frame_corners |-> DataFrameToJson(ui["df_frame_corners"])],
                     TRUE) >>
     ELSE << >>)

----------------------------------------------------------------------------
(* Process supervisor: reset_gui, keep_alive, cleanup *)

\* The fields a handler works on, with the calls it has made so far.
Self ==
    [gui_process |-> gui_process, gui_heartbeat_id |-> gui_heartbeat_id,
     gui_enabled |-> gui_enabled, alive_timestamp |-> alive_timestamp,
     procs |-> procs, sources |-> sources, next_source_id |-> next_source_id,
     trace |-> << >>, error |-> "none"]

\* The handler returns (or raises) leaving the fields as in s.
Commit(s) ==
    /\ gui_process' = s.gui_process
    /\ gui_heartbeat_id' = s.gui_heartbeat_id
    /\ gui_enabled' = s.gui_enabled
    /\ alive_timestamp' = s.alive_timestamp
    /\ procs' = s.procs
    /\ sources' = s.sources
    /\ next_source_id' = s.next_source_id
    /\ trace' = s.trace
    /\ error' = s.error

\* cleanup() without the gobject.source_remove
cleanupKeepsSource(s) == [s EXCEPT !.alive_timestamp = None]

\* cleanup(): gobject.source_remove of a source that is gone changes nothing
cleanup(s) ==
    IF s.gui_heartbeat_id # None
    THEN [s EXCEPT !.sources = @ \ {s.gui_heartbeat_id},
                   !.alive_timestamp = None,
                   !.trace = Append(@, [op |-> "source_remove",
                                        id |-> s.gui_heartbeat_id])]
    ELSE [s EXCEPT !.alive_timestamp = None]

\* reset_gui(): spawn_ok is whether Popen returns (it raises OSError otherwise)
reset_gui(s, spawn_ok) ==
    LET t1 == Append(s.trace, [op |-> "get_app_values"])
    IN  IF ~spawn_ok
        THEN [s EXCEPT !.trace = Append(t1, [op |-> "Popen", ok |-> FALSE]),
                       !.error = "OSError"]
        ELSE
          LET pid == Len(s.procs) + 1
              s1 == [s EXCEPT !.procs = Append(@, "alive"),
                              !.gui_process = pid,
                              !.gui_enabled = TRUE,
                              !.trace = t1 \o << [op |-> "Popen", ok |-> TRUE,
                                                  pid |-> pid],
                                                 [op |-> "get_app_values"] >>]
          IN  IF ~CanDecode(app_values)
              THEN [s1 EXCEPT !.error = "ValueError"]
              ELSE
                LET id == s.next_source_id
                IN  [s1 EXCEPT
                       !.trace = @ \o set_ui_settings(
                                         json_settings_as_python(app_values), TRUE)
                                   \o << [op |-> "timeout_add", id |-> id] >>,
                       !.gui_heartbeat_id = id,
                       !.sources = @ \cup {id},
                       !.next_source_id = id + 1]

\* self.gui_process.poll() is not None: any exit taken for a clean one
ExitedAny(status) == status # "alive"

\* self.gui_process.poll() == 0
ExitedClean(status) == status = "exit0"

\* keep_alive(), the callback of timer source id.  The source is removed
\* when the callback returns False or raises.
keep_alive(id) ==
    /\ id \in sources
    /\ \E now \in Times, spawn_ok \in BOOLEAN :
         LET s0 == Self
             status == procs[gui_process]
             polled == [s0 EXCEPT !.trace = << [op |-> "poll",
                                                pid |-> gui_process,
                                                status |-> status] >>]
         IN  /\ (gui_enabled /\ ExitedClean(status) /\ spawn_ok)
                    => Len(procs) < MaxProcs
             /\ Commit(
                  IF ~gui_enabled
                  THEN [s0 EXCEPT !.alive_timestamp = None, !.sources = @ \ {id}]
                  ELSE IF ExitedClean(status)
                  THEN [reset_gui(cleanup(polled), spawn_ok)
                            EXCEPT !.sources = @ \ {id}]
                  ELSE [polled EXCEPT !.alive_timestamp = now])
    /\ lastOp' = [name |-> "keep_alive", arg |-> id]
    /\ UNCHANGED <<should_terminate, video_settings, notified, app_values, steps>>

\* flatlandToDict(self.StepFields), reduced to the defaults it is read for
StepSchema == [video_enabled |-> [default |-> TRUE]]

\* on_plugin_enable(); the base class's on_plugin_enable touches none of these fields
on_plugin_enable ==
    /\ \E spawn_ok \in BOOLEAN :
         LET r == reset_gui(Self, spawn_ok)
             defaults == [k \in DOMAIN StepSchema |-> StepSchema[k].default]
         IN  /\ spawn_ok => Len(procs) < MaxProcs
             /\ Commit(
                  IF r.error # "none" THEN r
                  ELSE [r EXCEPT !.trace = @ \o
                           << Publish(TopicSchema, StepSchema, TRUE),
                              Publish(TopicStepOptions, << defaults >>, TRUE) >>])
    /\ lastOp' = [name |-> "on_plugin_enable", arg |-> None]
    /\ UNCHANGED <<should_terminate, video_settings, notified, app_values, steps>>

on_plugin_disable ==
    /\ Commit(cleanup([Self EXCEPT !.gui_enabled = FALSE]))
    /\ lastOp' = [name |-> "on_plugin_disable", arg |-> None]
    /\ UNCHANGED <<should_terminate, video_settings, notified, app_values, steps>>

\* A worker process ends on its own, with exit status 0 or not.
WorkerExit(pid, status) ==
    /\ pid \in DOMAIN procs
    /\ procs[pid] = "alive"
    /\ procs' = [procs EXCEPT ![pid] = status]
    /\ lastOp' = [name |-> "WorkerExit", arg |-> pid]
    /\ trace' = << >>
    /\ error' = "none"
    /\ UNCHANGED <<gui_process, gui_heartbeat_id, gui_enabled, alive_timestamp,
                   should_terminate, video_settings, sources, next_source_id,
                   notified, app_values, steps>>

----------------------------------------------------------------------------
(* Bridge: on_app_exit, on_message for the settings topic, save_ui_settings *)

on_app_exit ==
    /\ should_terminate' = TRUE
    /\ trace' = << Publish(TopicGetVideoSettingsOut, None, FALSE) >>
    /\ error' = "none"
    /\ lastOp' = [name |-> "on_app_exit", arg |-> None]
    /\ UNCHANGED <<gui_process, gui_heartbeat_id, gui_enabled, alive_timestamp,
                   video_settings, procs, sources, next_source_id, notified,
                   app_values, steps>>

\* the comparison left out: the store is written on every message
SettingsAlwaysDiffer(app_video_values, settings) == TRUE

\* app_video_values != video_settings
SettingsDiffer(app_video_values, settings) == app_video_values # settings

\* save_ui_settings(video_settings): the store afterwards and the calls made
save_ui_settings(settings) ==
    LET app_video_values == DictRestrict(app_values, DOMAIN settings)
        read == << [op |-> "get_app_values"] >>
    IN  IF SettingsDiffer(app_video_values, settings)
        THEN LET updated == DictUpdate(app_values, settings)
             IN  [values |-> updated,
                  trace |-> Append(read, [op |-> "set_app_values",
                                          values |-> updated])]
        ELSE [values |-> app_values, trace |-> read]

\* the notice published whatever self.should_terminate is
TerminateNoticeAlways(flag) == << Publish(TopicTerminate, None, FALSE) >>

\* if self.should_terminate: publish the terminate notice
TerminateNotice(flag) ==
    IF flag THEN << Publish(TopicTerminate, None, FALSE) >> ELSE << >>

\* the worker processes that have not exited: the subscribers a publish reaches
Running(ps) == {pid \in DOMAIN ps : ps[pid] = "alive"}

\* Settings documents a worker sends on the get-video-settings topic
OtherWidth == DefaultWidth + 240
VideoConfigValues == {JsonEmpty, JsonA, JsonBad}
WidthValues == {DefaultWidth, OtherWidth}
SettingsMsgs ==
    {EmptyDict}
    \cup {[video_config |-> v] : v \in VideoConfigValues}
    \cup {[width |-> w] : w \in WidthValues}
    \cup {[video_config |-> JsonA, width |-> w] : w \in WidthValues}

\* on_message, msg.topic == 'microdrop/dmf-device-ui/get-video-settings'
on_message_settings(settings) ==
    /\ LET saved == save_ui_settings(settings)
       IN  /\ video_settings' = settings
           /\ app_values' = saved.values
           /\ trace' = saved.trace \o TerminateNotice(should_terminate)
           /\ notified' = IF TerminateNotice(should_terminate) # << >>
                          THEN notified \cup Running(procs)
                          ELSE notified
    /\ error' = "none"
    /\ lastOp' = [name |-> "on_message_settings", arg |-> TopicGetVideoSettingsIn]
    /\ UNCHANGED <<gui_process, gui_heartbeat_id, gui_enabled, alive_timestamp,
                   should_terminate, procs, sources, next_source_id, steps>>

----------------------------------------------------------------------------
(* Specification of the supervisor and the settings flow *)

Init ==
    /\ gui_process = None
    /\ gui_heartbeat_id = None
    /\ gui_enabled = FALSE
    /\ alive_timestamp = None
    /\ should_terminate = FALSE
    /\ video_settings = EmptyDict
    /\ procs = << >>
    /\ sources = {}
    /\ next_source_id = 1
    /\ notified = {}
    /\ app_values = AppDefaults
    /\ steps = << [p \in {PluginName, OtherPlugin} |->
                     IF p = PluginName THEN StepDefaults ELSE [voltage |-> 100]] >>
    /\ trace = << >>
    /\ lastOp = [name |-> "__init__", arg |-> None]
    /\ error = "none"

Next ==
    \/ on_plugin_enable
    \/ on_plugin_disable
    \/ \E id \in 1..MaxProcs : keep_alive(id)
    \/ \E pid \in 1..MaxProcs, status \in {"exit0", "exit1"} : WorkerExit(pid, status)
    \/ on_app_exit
    \/ \E settings \in SettingsMsgs : on_message_settings(settings)

Spec == Init /\ [][Next]_vars

----------------------------------------------------------------------------
(* Specification of the settings codec: a wire document is received, then  *)
(* decoded on its own or at a worker start                                 *)

WireKeys == CornerKeys \cup SeriesKeys

WireValues(k) ==
    IF k \in SeriesKeys THEN {JsonEmpty, JsonA, JsonSpaced, JsonBad}
    ELSE {"", CsvCorners, CsvFrame, CsvBad}

\* wire documents: each settings field absent, empty, valid or unparsable
WireDocs ==
    UNION {{d \in [F -> UNION {WireValues(k) : k \in WireKeys}] :
               \A k \in F : d[k] \in WireValues(k)} : F \in SUBSET WireKeys}

\* json_settings_as_python(self.video_settings), called on its own
call_json_settings_as_python ==
    /\ trace' = IF CanDecode(video_settings)
                THEN << [op |-> "json_settings_as_python",
                         result |-> json_settings_as_python(video_settings)] >>
                ELSE << >>
    /\ error' = IF CanDecode(video_settings) THEN "none" ELSE "ValueError"
    /\ lastOp' = [name |-> "json_settings_as_python", arg |-> video_settings]
    /\ UNCHANGED <<supervisorVars, steps>>

\* the plugin after it saved a first settings document over the defaults
InitCodec ==
    /\ gui_process = None
    /\ gui_heartbeat_id = None
    /\ gui_enabled = FALSE
    /\ alive_timestamp = None
    /\ should_terminate = FALSE
    /\ video_settings \in WireDocs
    /\ procs = << >>
    /\ sources = {}
    /\ next_source_id = 1
    /\ notified = {}
    /\ app_values = DictUpdate(AppDefaults, video_settings)
    /\ steps = << [p \in {PluginName, OtherPlugin} |->
                     IF p = PluginName THEN StepDefaults ELSE [voltage |-> 100]] >>
    /\ trace = << >>
    /\ lastOp = [name |-> "__init__", arg |-> None]
    /\ error = "none"

NextCodec ==
    \/ call_json_settings_as_python
    \/ on_plugin_enable

SpecCodec == InitCodec /\ [][NextCodec]_vars

----------------------------------------------------------------------------
(* Step protocol synchronizer: update_steps, update_protocol *)

\* Step indices are Python's (from 0) in the events; step i is st[i + 1].

\* range(num_steps - 1): the last step left out
SnapshotShort(st) == [i \in 1..(Len(st) - 1) |-> st[i][PluginName]]

\* protocol = [self.get_step_options(i) for i in range(num_steps)]
Snapshot(st) == [i \in 1..Len(st) |-> st[i][PluginName]]

\* update_steps(): the publish it makes when the protocol's steps are st
update_steps(st) == << Publish(TopicStepOptions, Snapshot(st), TRUE) >>

\* values = dict(s): the edited document written back as it is
MergeValuesAllKeys(prevData, s) == s

\* values = {k: prevData[k] != s[k] for k in prevData if k in s}
MergeValuesToggle(prevData, s) ==
    [k \in DOMAIN prevData \cap DOMAIN s |-> prevData[k] # s[k]]

\* values = {k: s[k] for k in prevData if k in s}
MergeValues(prevData, s) == [k \in DOMAIN prevData \cap DOMAIN s |-> s[k]]

\* step.set_data(plugin, values) storing values for every plugin of the step
SetDataAllPlugins(step, plugin, values) == [p \in DOMAIN step |-> values]

\* step.set_data(plugin, values)
SetData(step, plugin, values) == [step EXCEPT ![plugin] = values]

\* one pass of the loop with emit_signal called before step.set_data
StepCallsSignalFirst(i, prevData, values, st1) ==
    << [op |-> "get_data", i |-> i, values |-> prevData],
       [op |-> "emit_signal", i |-> i] >>
    \o update_steps(st1)
    \o << [op |-> "set_data", i |-> i, values |-> values] >>

\* the calls of one pass of the loop of update_protocol, in order; st1 is
\* the protocol's steps once set_data has stored values
StepCalls(i, prevData, values, st1) ==
    << [op |-> "get_data", i |-> i, values |-> prevData],
       [op |-> "set_data", i |-> i, values |-> values],
       [op |-> "emit_signal", i |-> i] >>
    \o update_steps(st1)

RECURSIVE MergeFrom(_, _, _, _)
\* the loop of update_protocol from index i on.  emit_signal delivers
\* on_step_options_changed to this plugin too, which runs update_steps.
MergeFrom(st, protocol, i, tr) ==
    IF i >= Len(protocol)
    THEN [steps |-> st, trace |-> tr, error |-> "none"]
    ELSE IF i >= Len(st)
    THEN [steps |-> st, trace |-> tr, error |-> "IndexError"]
    ELSE
      LET s == protocol[i + 1]
          prevData == st[i + 1][PluginName]
          values == MergeValues(prevData, s)
          st1 == [st EXCEPT ![i + 1] = SetData(@, PluginName, values)]
      IN  MergeFrom(st1, protocol, i + 1,
                    tr \o StepCalls(i, prevData, values, st1))

update_protocol(st, protocol) == MergeFrom(st, protocol, 0, << >>)

\* Edited step documents and edited snapshots the UI sends
EditDocs ==
    {EmptyDict}
    \cup {[video_enabled |-> b] : b \in BOOLEAN}
    \cup {[bogus |-> TRUE]}
    \cup {[video_enabled |-> b, bogus |-> TRUE] : b \in BOOLEAN}
Edits == UNION {[1..n -> EditDocs] : n \in 0..MaxEdit}

\* on_message, msg.topic == 'microdrop/dmf-device-ui/update-protocol'
on_message_update_protocol(protocol) ==
    /\ LET r == update_protocol(steps, protocol)
       IN  /\ steps' = r.steps
           /\ trace' = r.trace
           /\ error' = r.error
    /\ lastOp' = [name |-> "on_message_update_protocol", arg |-> protocol]
    /\ UNCHANGED supervisorVars

\* The protocol removes step i, then signals on_step_removed.
on_step_removed(i) ==
    /\ Len(steps) > 1
    /\ i \in 0..(Len(steps) - 1)
    /\ steps' = SubSeq(steps, 1, i) \o SubSeq(steps, i + 2, Len(steps))
    /\ trace' = update_steps(steps')
    /\ error' = "none"
    /\ lastOp' = [name |-> "on_step_removed", arg |-> i]
    /\ UNCHANGED supervisorVars

\* The protocol inserts a copy of step i after it; no handler of this plugin runs.
StepInserted(i) ==
    /\ Len(steps) < MaxSteps
    /\ i \in 0..(Len(steps) - 1)
    /\ steps' = SubSeq(steps, 1, i + 1) \o SubSeq(steps, i + 1, Len(steps))
    /\ trace' = << >>
    /\ error' = "none"
    /\ lastOp' = [name |-> "StepInserted", arg |-> i]
    /\ UNCHANGED supervisorVars

\* Options another plugin keeps in a step
OtherOptions == {[voltage |-> 100]}

\* A plugin's options of step i are set (the user edits the step in the
\* host, or another plugin stores its own), then on_step_options_changed
\* is signalled.
on_step_options_changed(plugin, i, options) ==
    /\ i \in 0..(Len(steps) - 1)
    /\ \/ plugin = PluginName /\ options \in {[video_enabled |-> b] : b \in BOOLEAN}
       \/ plugin = OtherPlugin /\ options \in OtherOptions
    /\ steps' = [steps EXCEPT ![i + 1] =
                    [p \in DOMAIN @ \cup {plugin} |->
                        IF p = plugin THEN options ELSE @[p]]]
    /\ trace' = update_steps(steps')
    /\ error' = "none"
    /\ lastOp' = [name |-> "on_step_options_changed", arg |-> i]
    /\ UNCHANGED supervisorVars

NextProtocol ==
    \/ \E protocol \in Edits : on_message_update_protocol(protocol)
    \/ \E i \in 0..(MaxSteps - 1) : on_step_removed(i)
    \/ \E i \in 0..(MaxSteps - 1) : StepInserted(i)
    \/ \E i \in 0..(MaxSteps - 1), plugin \in {PluginName, OtherPlugin},
          options \in {[video_enabled |-> b] : b \in BOOLEAN} \cup OtherOptions :
            on_step_options_changed(plugin, i, options)

SpecProtocol == Init /\ [][NextProtocol]_vars

----------------------------------------------------------------------------
(* Properties *)

\* positions of the calls of one kind in the last handler's trace
Calls(opname) == {j \in DOMAIN trace : trace[j].op = opname}

\* positions of the publishes on one topic in the last handler's trace
Publishes(topic) ==
    {j \in DOMAIN trace : trace[j].op = "publish" /\ trace[j].topic = topic}

\* the last handler was update_protocol
Merged == lastOp.name = "on_message_update_protocol"

\* C1: a merge never introduces a key.  For every step written by
\* update_protocol, the keys written (and the keys the step holds afterwards)
\* are keys the step's options had before the merge; keys of the edited
\* document that the step did not have are not written.
C1_MergeIntroducesNoKey ==
    Merged =>
      \A j \in Calls("set_data") :
        /\ j - 1 \in Calls("get_data")
        /\ trace[j - 1].i = trace[j].i
        /\ DOMAIN trace[j].values \subseteq DOMAIN trace[j - 1].values
        /\ (DOMAIN lastOp.arg[trace[j].i + 1] \ DOMAIN trace[j - 1].values)
              \cap DOMAIN steps[trace[j].i + 1][PluginName] = {}
        /\ DOMAIN steps[trace[j].i + 1][PluginName]
              \subseteq DOMAIN trace[j - 1].values

\* C1 witness: an edit carrying a key the step did not have was merged.
C1_Witness ==
    /\ Merged
    /\ \E j \in Calls("set_data") :
         /\ "bogus" \in DOMAIN lastOp.arg[trace[j].i + 1]
         /\ "bogus" \notin DOMAIN trace[j - 1].values
         /\ "video_enabled" \in DOMAIN trace[j].values

\* C2: the options written back by update_protocol have exactly the keys of
\* the existing options S; a key of S takes the edited value when the edit
\* has it and keeps its existing value otherwise.
C2_MergeKeepsKeysOfS ==
    Merged =>
      \A j \in Calls("set_data") :
        LET S == trace[j - 1].values
            E == lastOp.arg[trace[j].i + 1]
            W == trace[j].values
        IN  /\ DOMAIN W = DOMAIN S
            /\ \A k \in DOMAIN S \cap DOMAIN W :
                 W[k] = IF k \in DOMAIN E THEN E[k] ELSE S[k]

\* the first call of a heartbeat tick that found the plugin enabled is poll()
Polled(status) ==
    /\ lastOp.name = "keep_alive"
    /\ trace # << >>
    /\ trace[1].op = "poll"
    /\ trace[1].status = status

\* C3: a heartbeat tick that observes exit status 0 starts the worker once,
\* and when the spawn succeeds a new worker is alive and the heartbeat
\* timer is registered again; a tick that observes a non-zero status spawns
\* nothing.
C3_HeartbeatRestart ==
    /\ Polled("exit0") =>
         /\ Cardinality(Calls("Popen")) = 1
         /\ \A j \in Calls("Popen") :
              trace[j].ok =>
                /\ gui_process = trace[j].pid
                /\ gui_heartbeat_id \in sources
                /\ Calls("timeout_add") # {}
    /\ Polled("exit1") => Calls("Popen") = {}

LiveWorkers == {pid \in DOMAIN procs : procs[pid] = "alive"}

\* C4: at most one worker process is alive at any time.
C4_AtMostOneLiveWorker == Cardinality(LiveWorkers) <= 1

\* C5 as stated: after a tick observes a non-zero exit status the running
\* flag is cleared, the heartbeat has ceased and no restart was attempted.
C5_FatalExitStops ==
    Polled("exit1") =>
      /\ ~gui_enabled
      /\ lastOp.arg \notin sources
      /\ Calls("Popen") = {}

\* C5 amended: after a tick observes a non-zero exit status no restart was
\* attempted, and the supervisor is still running: the running flag is set,
\* the ticking timer stays registered and the last-heartbeat timestamp is
\* set.
C5_FatalExitKeepsHeartbeat ==
    Polled("exit1") =>
      /\ Calls("Popen") = {}
      /\ Len(trace) = 1
      /\ gui_enabled
      /\ lastOp.arg \in sources
      /\ alive_timestamp # None

\* C5 witness: a tick has polled a worker that exited with a non-zero status.
C5_Witness == Polled("exit1") /\ procs[gui_process] = "exit1"

\* the last handler published a snapshot through update_steps
SnapshotHandlers ==
    {"on_step_removed", "on_step_options_changed", "on_message_update_protocol"}

\* C6: every snapshot update_steps publishes has as many elements as the
\* protocol has steps at the call, and the elements of the last one
\* published are the steps' options for this plugin, in step order.
C6_SnapshotLength ==
    lastOp.name \in SnapshotHandlers =>
      /\ \A j \in Publishes(TopicStepOptions) :
           Len(trace[j].payload) = Len(steps)
      /\ \A j \in Publishes(TopicStepOptions) :
           (\A l \in Publishes(TopicStepOptions) : l <= j) =>
              \A i \in 1..Len(steps) :
                 trace[j].payload[i] = steps[i][PluginName]
      /\ lastOp.name # "on_message_update_protocol"
           => Cardinality(Publishes(TopicStepOptions)) = 1

\* C6 witness: a snapshot of two steps was published after a step was added.
C6_Witness ==
    /\ lastOp.name = "on_step_options_changed"
    /\ Len(steps) = 2
    /\ \E j \in Publishes(TopicStepOptions) : Len(trace[j].payload) = 2

\* C7: on_plugin_disable clears the running flag and removes the heartbeat
\* timer; called when already stopped it changes no field of the
\* supervisor; and a tick while stopped spawns nothing and leaves the
\* timestamp unset.
C7_StopIdempotent ==
    /\ [](lastOp.name = "on_plugin_disable" =>
            /\ ~gui_enabled
            /\ gui_heartbeat_id \notin sources
            /\ alive_timestamp = None)
    /\ [][(lastOp'.name = "on_plugin_disable" /\ ~gui_enabled)
            => UNCHANGED supervisorVars]_vars
    /\ [][(lastOp'.name = "keep_alive" /\ ~gui_enabled) =>
            /\ procs' = procs
            /\ gui_process' = gui_process
            /\ ~gui_enabled'
            /\ alive_timestamp' = None
            /\ trace' = << >>]_vars

\* C7 witness: a running supervisor was stopped and its timer removed.
C7_Witness ==
    /\ lastOp.name = "on_plugin_disable"
    /\ gui_process # None
    /\ Calls("source_remove") # {}
    /\ sources = {}

\* C8: an edited snapshot longer than the protocol is merged without an
\* error: every index below the step count is merged and notified and
\* nothing is written for the indices beyond it.
C8_LongEditSkipped ==
    (Merged /\ Len(lastOp.arg) > Len(steps)) =>
      /\ error = "none"
      /\ {trace[j].i : j \in Calls("set_data")} = 0..(Len(steps) - 1)
      /\ {trace[j].i : j \in Calls("emit_signal")} = 0..(Len(steps) - 1)

\* C9: the terminate notice is published only by the handling of a settings
\* message, only once on_app_exit has set should_terminate, and after
\* save_ui_settings has run: the store has been read, any write of it comes
\* before the notice, and the store agrees with the message's settings.
C9_TerminateAfterSave ==
    \A j \in Publishes(TopicTerminate) :
      /\ should_terminate
      /\ lastOp.name = "on_message_settings"
      /\ \E r \in Calls("get_app_values") : r < j
      /\ \A w \in Calls("set_app_values") : w < j
      /\ DictRestrict(app_values, DOMAIN video_settings) = video_settings

\* C9 witness: a terminate notice was published after the store was written.
C9_Witness ==
    /\ Publishes(TopicTerminate) # {}
    /\ Calls("set_app_values") # {}

\* C10: handling a settings message V writes the store only if some field
\* of V differs from the persisted value; then it writes once, and the
\* store afterwards agrees with V on V's fields and is unchanged elsewhere.
C10_SaveOnlyDifferences ==
    [][lastOp'.name = "on_message_settings" =>
         LET V == video_settings'
             same == \A k \in DOMAIN V :
                        k \in DOMAIN app_values /\ app_values[k] = V[k]
             writes == {j \in DOMAIN trace' : trace'[j].op = "set_app_values"}
         IN  IF same
             THEN writes = {} /\ app_values' = app_values
             ELSE /\ Cardinality(writes) = 1
                  /\ \A j \in writes : trace'[j].values = app_values'
                  /\ \A k \in DOMAIN V : app_values'[k] = V[k]
                  /\ \A k \in DOMAIN app_values \ DOMAIN V :
                        app_values'[k] = app_values[k]
                  /\ DOMAIN app_values' = DOMAIN app_values \cup DOMAIN V]_vars

\* C10 witness: a message changing one field was saved, the other field
\* having been changed before.
C10_Witness ==
    /\ lastOp.name = "on_message_settings"
    /\ Calls("set_app_values") # {}
    /\ DOMAIN video_settings = {"video_config"}
    /\ app_values.width = OtherWidth

\* the last handler ran reset_gui and its Popen returned
Started ==
    /\ lastOp.name \in {"on_plugin_enable", "keep_alive"}
    /\ \E j \in Calls("Popen") : trace[j].ok

\* the last handler ran reset_gui and its Popen raised
SpawnFailed ==
    /\ lastOp.name \in {"on_plugin_enable", "keep_alive"}
    /\ \E j \in Calls("Popen") : ~trace[j].ok

\* the topic a series field is published on
SeriesTopic(k) ==
    IF k = "video_config" THEN TopicSetVideoConfig ELSE TopicSetSurfaceAlphas

\* the series fields of a wire document that json.loads cannot parse
BadSeriesFields(js) ==
    {k \in {"video_config", "surface_alphas"} \cap DOMAIN js :
        js[k] \notin {"", JsonA, JsonSpaced}}

\* C11: when a settings field is unparsable at a worker start, only that
\* field is skipped: the start raises nothing, the other series fields are
\* published and the heartbeat timer is registered.
C11_MalformedFieldSkipped ==
    (Started /\ BadSeriesFields(app_values) # {}) =>
      /\ error = "none"
      /\ \A k \in {"video_config", "surface_alphas"} \ BadSeriesFields(app_values) :
           Publishes(SeriesTopic(k)) # {}
      /\ Calls("timeout_add") # {}
      /\ gui_heartbeat_id \in sources

\* C12: a start whose spawn fails, reached from an enable of a stopped
\* supervisor or from the heartbeat's restart, leaves the running flag
\* false and no heartbeat timer registered, and the next tick spawns nothing.
C12_SpawnFailureStops ==
    /\ [][(SpawnFailed' /\ (lastOp'.name = "keep_alive" \/ ~gui_enabled)) =>
            /\ ~gui_enabled'
            /\ gui_heartbeat_id' \notin sources']_vars
    /\ [][(SpawnFailed /\ lastOp'.name = "keep_alive") =>
            \A j \in DOMAIN trace' : trace'[j].op # "Popen"]_vars

TypedCorners == {"df_canvas_corners", "df_frame_corners"}

\* the last handler was a call of json_settings_as_python that returned
Decoded == lastOp.name = "json_settings_as_python" /\ error = "none"

\* both corner fields of a wire document are present and non-empty
BothCorners(js) ==
    /\ "canvas_corners" \in DOMAIN js /\ js["canvas_corners"] # ""
    /\ "frame_corners" \in DOMAIN js /\ js["frame_corners"] # ""

\* C13: json_settings_as_python yields both typed corner tables when both
\* corner fields are present and non-empty and neither of them otherwise;
\* a worker start publishes a corners message only in the first case, and
\* then on the default-corners topic.
C13_CornerAtomicity ==
    /\ Decoded =>
         IF BothCorners(lastOp.arg)
         THEN TypedCorners \subseteq DOMAIN trace[1].result
         ELSE TypedCorners \cap DOMAIN trace[1].result = {}
    /\ lastOp.name = "on_plugin_enable" =>
         /\ Publishes(TopicSetCorners) = {}
         /\ Publishes(TopicSetDefaultCorners) # {} => BothCorners(app_values)
         /\ (BothCorners(app_values) /\ Started /\ error = "none")
               => Publishes(TopicSetDefaultCorners) # {}

\* C13 witness: a document with one corner field only was decoded, and no
\* typed table came out.
C13_Witness ==
    /\ Decoded
    /\ "canvas_corners" \in DOMAIN lastOp.arg
    /\ lastOp.arg["canvas_corners"] = CsvCorners
    /\ "frame_corners" \notin DOMAIN lastOp.arg
    /\ TypedCorners \cap DOMAIN trace[1].result = {}

\* the mapping the JSON samples stand for
SampleSeries == << <<"a", 1>> >>

\* C14 as stated: a series field decodes to an empty mapping both when its
\* wire value is empty and when the field is absent, and to the parsed
\* mapping when the value is non-empty.
C14_AbsentDecodesEmpty ==
    Decoded =>
      \A k \in {"video_config", "surface_alphas"} :
        LET js == lastOp.arg
            py == trace[1].result
        IN  /\ k \in DOMAIN py
            /\ IF k \in DOMAIN js /\ js[k] # ""
               THEN py[k] = SampleSeries
               ELSE py[k] = << >>

\* C14 amended: a series field decodes to an empty mapping when its wire
\* value is empty and to the parsed mapping when it is non-empty; a field
\* absent from the wire document is absent from the result.
C14_SeriesDecode ==
    Decoded =>
      \A k \in {"video_config", "surface_alphas"} :
        LET js == lastOp.arg
            py == trace[1].result
        IN  IF k \notin DOMAIN js THEN k \notin DOMAIN py
            ELSE /\ k \in DOMAIN py
                 /\ IF js[k] = "" THEN py[k] = << >> ELSE py[k] = SampleSeries

\* C14 witness: a document without video_config and with a non-empty
\* surface_alphas was decoded.
C14_Witness ==
    /\ Decoded
    /\ "video_config" \notin DOMAIN lastOp.arg
    /\ "surface_alphas" \in DOMAIN lastOp.arg
    /\ lastOp.arg["surface_alphas"] = JsonSpaced
    /\ trace[1].result["surface_alphas"] = SampleSeries

\* the last handler was an on_plugin_enable whose worker start completed
StartCompleted ==
    lastOp.name = "on_plugin_enable" /\ Started /\ error = "none"

\* C15 as stated: at a worker start from a document whose four settings
\* fields are non-empty and valid, what is published for each field is the
\* wire value that was decoded.
C15_RoundTrip ==
    (StartCompleted /\ \A k \in WireKeys : app_values[k] # "") =>
      /\ \A k \in {"video_config", "surface_alphas"} :
           \A j \in Publishes(SeriesTopic(k)) :
              trace[j].payload[k] = app_values[k]
      /\ \A j \in Publishes(TopicSetDefaultCorners) :
           /\ trace[j].payload["df_canvas_corners"] = app_values["canvas_corners"]
           /\ trace[j].payload["df_frame_corners"] = app_values["frame_corners"]

\* the JSON text of the table a CSV sample holds
TableJson(csv) ==
    IF csv = CsvCorners
    THEN "{\"x\":{\"0\":0,\"1\":1},\"y\":{\"0\":0,\"1\":0}}"
    ELSE "{\"x\":{\"0\":0,\"1\":2},\"y\":{\"0\":0,\"1\":0}}"

\* C15 amended: at a worker start, a non-empty series field is published
\* as its compact JSON text, which is the wire value only when the wire
\* value is written in that form; the corner fields, when both are
\* non-empty, are published as the JSON text of their tables under the
\* df_ names, which is never the CSV text received.
C15_RoundTripCompactJson ==
    StartCompleted =>
      /\ \A k \in {"video_config", "surface_alphas"} :
           app_values[k] # "" =>
             /\ Cardinality(Publishes(SeriesTopic(k))) = 1
             /\ \A j \in Publishes(SeriesTopic(k)) :
                  /\ trace[j].payload[k] = JsonA
                  /\ (trace[j].payload[k] = app_values[k]) <=> (app_values[k] = JsonA)
      /\ BothCorners(app_values) =>
           /\ Cardinality(Publishes(TopicSetDefaultCorners)) = 1
           /\ \A j \in Publishes(TopicSetDefaultCorners) :
                /\ trace[j].payload["df_canvas_corners"]
                      = TableJson(app_values["canvas_corners"])
                /\ trace[j].payload["df_frame_corners"]
                      = TableJson(app_values["frame_corners"])
                /\ trace[j].payload["df_canvas_corners"] # app_values["canvas_corners"]
                /\ trace[j].payload["df_frame_corners"] # app_values["frame_corners"]

\* C15 witness: a worker start published a compact video_config, a
\* re-spaced surface_alphas and both corner tables.
C15_Witness ==
    /\ StartCompleted
    /\ app_values["video_config"] = JsonA
    /\ app_values["surface_alphas"] = JsonSpaced
    /\ app_values["canvas_corners"] = CsvCorners
    /\ app_values["frame_corners"] = CsvFrame
    /\ Publishes(TopicSetDefaultCorners) # {}

\* the emit_signal calls of the last handler made for step index i
Signals(i) == {j \in Calls("emit_signal") : trace[j].i = i}

\* Within the last merge the notifications come in strictly increasing
\* index order, exactly one for each index below n, each after the
\* set_data of its index and before the set_data of the next index.
NotifiedInOrder(n) ==
    /\ \A j, k \in Calls("emit_signal") : j < k => trace[j].i < trace[k].i
    /\ \A j \in Calls("emit_signal") : trace[j].i \in 0..(n - 1)
    /\ \A i \in 0..(n - 1) :
         /\ Cardinality(Signals(i)) = 1
         /\ \A j \in Signals(i) :
              /\ \E w \in Calls("set_data") : trace[w].i = i /\ w < j
              /\ \A w \in Calls("set_data") : trace[w].i = i + 1 => j < w

\* C16 as stated: within one merge there is exactly one notification for
\* each index of the edited snapshot, in strictly increasing index order,
\* each after its step is written and before the next step is written.
C16_OneSignalPerEditIndex ==
    Merged => NotifiedInOrder(Len(lastOp.arg))

\* the smaller of two numbers
Min(a, b) == IF a <= b THEN a ELSE b

\* C16 amended: within one merge there is exactly one notification for
\* each index below both the edited snapshot's length and the step count,
\* and none for any other index; they come in strictly increasing index
\* order, each after its step is written and before the next is written.
C16_OneSignalPerMergedIndex ==
    Merged => NotifiedInOrder(Min(Len(lastOp.arg), Len(steps)))

\* C16 witness: an edit of two documents was merged into two steps and two
\* notifications were made.
C16_Witness ==
    /\ Merged
    /\ Len(lastOp.arg) = 2
    /\ Len(steps) = 2
    /\ Cardinality(Calls("emit_signal")) = 2

\* C17: a merge writes only this plugin's options: the step count, every
\* step's set of plugins and every other plugin's options are unchanged,
\* and a step at an index beyond the edited snapshot's length is unchanged.
C17_MergeWritesOwnNamespace ==
    [][lastOp'.name = "on_message_update_protocol" =>
         /\ Len(steps') = Len(steps)
         /\ \A i \in 1..Len(steps) :
              /\ DOMAIN steps'[i] = DOMAIN steps[i]
              /\ \A p \in DOMAIN steps[i] \ {PluginName} :
                    steps'[i][p] = steps[i][p]
              /\ i > Len(lastOp'.arg) => steps'[i] = steps[i]]_vars

\* C17 witness: a merge shorter than the step count changed this plugin's
\* options in a step that also holds another plugin's options.
C17_Witness ==
    /\ Merged
    /\ Len(lastOp.arg) = 1
    /\ Len(steps) = 2
    /\ OtherPlugin \in DOMAIN steps[1]
    /\ steps[1][OtherPlugin] = [voltage |-> 100]
    /\ \E j \in Calls("set_data") : trace[j].values # trace[j - 1].values

\* C20: merging the same edited snapshot a second time, when it is no
\* longer than the step count, leaves every step as the first merge left
\* it; and no merge adds a key to this plugin's options of a step.
C20_MergeIdempotent ==
    /\ [][(/\ Merged
           /\ lastOp'.name = "on_message_update_protocol"
           /\ lastOp'.arg = lastOp.arg
           /\ Len(lastOp.arg) <= Len(steps)) => steps' = steps]_vars
    /\ [][lastOp'.name = "on_message_update_protocol" =>
            \A i \in 1..Len(steps) :
               DOMAIN steps'[i][PluginName] \subseteq DOMAIN steps[i][PluginName]]_vars

\* C20 witness: a merge no longer than the step count changed a step, and
\* merging the same edit again gives the same steps.
C20_Witness ==
    /\ Merged
    /\ Len(lastOp.arg) \in 1..Len(steps)
    /\ \E j \in Calls("set_data") : trace[j].values # trace[j - 1].values
    /\ update_protocol(steps, lastOp.arg).steps = steps

\* C18: at most one heartbeat timer is registered at any time, and none
\* is registered while the running flag is false.
C18_AtMostOneHeartbeat ==
    /\ Cardinality(sources) <= 1
    /\ ~gui_enabled => sources = {}

\* C19: once the terminate notice has been published, a heartbeat tick
\* that finds a notified worker exited with status 0 does not spawn a
\* replacement.
C19_NoRestartAfterTerminate ==
    (Polled("exit0") /\ trace[1].pid \in notified) => Calls("Popen") = {}

====
